---- MODULE Spec2Model ----
(***************************************************************************)
(* Starter App Launcher: the clipboard capture pipeline                    *)
(* (tools/clipboard/clipboard_service.py, tools/clipboard/storage.py) and  *)
(* the launch orchestrator (services/launcher_service.py).                 *)
(*                                                                         *)
(* Time is a discrete clock `now`.  The program's durations are scaled to  *)
(* ticks: the 150 ms debounce is DebounceTicks, the 3 hour duplicate       *)
(* window is DupWindowTicks, the 30 day retention age is MaxAgeTicks, the  *)
(* 500 row cap is MaxItems and the 10,000 character limit is MaxLength.    *)
(* Text is a sequence of characters over Alphabet; a timestamp is stored   *)
(* as the text datetime.isoformat() produces, a sequence of character      *)
(* codes compared as SQLite compares TEXT.                                 *)
(***************************************************************************)
EXTENDS Integers, Sequences, FiniteSets, TLC

\* ------------------------------------------------------------------ bounds
\* clipboard_service.py:128  self._debounce_timer.start(150), in ticks
DebounceTicks == 1
\* clipboard_service.py:143  check_hash_exists_in_hours(..., hours=3), in ticks
DupWindowTicks == 1
\* storage.py:264  max_days = 30, in ticks
MaxAgeTicks == 2
\* storage.py:264  max_items = 500, scaled
MaxItems == 2
\* clipboard_service.py:123  len(text) > 10000, scaled
MaxLength == 2
\* how long the clock runs
Horizon == 5

\* ------------------------------------------------------------ text values
Alphabet == {" ", "a"}

RECURSIVE SeqsUpTo(_)
SeqsUpTo(n) ==
    IF n = 0 THEN {<<>>}
    ELSE LET shorter == SeqsUpTo(n - 1)
         IN  shorter \cup {Append(s, c) : s \in {x \in shorter : Len(x) = n - 1}, c \in Alphabet}

\* what the clipboard can hold: every text up to one character over the limit
Texts == SeqsUpTo(MaxLength + 1)

\* str.strip(): drop leading and trailing whitespace
RECURSIVE lstrip(_)
lstrip(s) == IF s # <<>> /\ Head(s) = " " THEN lstrip(Tail(s)) ELSE s

RECURSIVE rstrip(_)
rstrip(s) ==
    IF s # <<>> /\ s[Len(s)] = " " THEN rstrip(SubSeq(s, 1, Len(s) - 1)) ELSE s

strip(s) == rstrip(lstrip(s))

\* hashlib.sha1(content.encode('utf-8')).hexdigest(): a digest that depends
\* on the content only; distinct contents of the model have distinct digests
sha1(content) == <<"sha1">> \o content

\* datetime.isoformat() of the instant t: a fixed-width whole part
\* ("YYYY-MM-DDTHH:MM:SS", here two decimal digits) followed by the
\* fractional part ".ffffff" only when it is not zero.  Characters are
\* their ASCII codes: "0" is 48 and "." is 46.
isoformat(t) ==
    LET whole == t \div 2
        frac  == t % 2
        base  == <<48 + (whole \div 10), 48 + (whole % 10)>>
    IN  IF frac = 0 THEN base ELSE base \o <<46, 53>>

\* SQLite's comparison of two TEXT values (binary collation): the first
\* differing character decides, and a proper prefix sorts first
TextLess(s, t) ==
    \E i \in 1..Len(t) :
        /\ i - 1 <= Len(s)
        /\ \A j \in 1..(i - 1) : s[j] = t[j]
        /\ (i > Len(s) \/ s[i] < t[i])

TextLeq(s, t) == s = t \/ TextLess(s, t)

\* datetime.fromisoformat() (storage.py:122) of a text isoformat() wrote
fromisoformat(s) ==
    2 * ((s[1] - 48) * 10 + (s[2] - 48)) + (IF Len(s) > 2 THEN 1 ELSE 0)

\* ------------------------------------------------------------------ state
VARIABLES
    now,               \* datetime.utcnow(), in ticks
    state,             \* ClipboardService._state
    connections,       \* connections of clipboard.dataChanged to _on_clipboard_changed
    debounce_timer,    \* ClipboardService._debounce_timer (single shot)
    pending_content,   \* ClipboardService._pending_content, <<>> for None
    ignore_flag,       \* ClipboardService._ignore_next_change
    rows,              \* the rows of table clipboard_items
    next_id,           \* the number of ids uuid4() has handed out
    effect,            \* history: what the latest operation emitted and did to the store
    burst              \* history: the current burst of clipboard-change events

clip_vars == <<now, state, connections, debounce_timer, pending_content,
               ignore_flag, rows, next_id, effect, burst>>

\* the launcher's call and its environment
VARIABLES
    fav,               \* the favourite launched: kind, lnk_path, browser_links
    on_disk,           \* the paths os.path.exists finds
    target,            \* what _resolve_lnk returns for the shortcut
    failing,           \* ordinals of the launch invocations that fail
    faulty,            \* the try body raises outside its guarded calls
    is_admin,          \* the host process runs elevated
    last_launch        \* the latest call: its callee and what it did

launch_vars == <<fav, on_disk, target, failing, faulty, is_admin, last_launch>>

\* the configuration store and its file
VARIABLES
    config,            \* ConfigStore.config, the AppConfig in memory
    config_file,       \* config.json
    temp_file,         \* config.tmp
    save_pc,           \* where ConfigStore.save stands
    save_data,         \* the local `data` of the save under way
    save_previous,     \* config.json as the save under way found it
    process            \* "running", or "crashed" once the process has died

config_vars == <<config, config_file, temp_file, save_pc, save_data,
                 save_previous, process>>

\* the settings tab and its startup trigger
VARIABLES
    tab,               \* SettingsTab: "none", "ready" once constructed, "failed"
    is_startup_launch, \* "--startup" in sys.argv
    started_by,        \* who started the process: the "user" or the scheduled "task"
    startup_processed, \* SettingsTab.startup_processed
    autostart_enabled, \* StartupService.is_enabled()
    enum_is_int,       \* the build's Qt.CheckState.Checked compares equal to 2
    user_setting,      \* trigger_selected_on_startup as the user left it
    launch_timers,     \* the batches waiting in QTimer.singleShot
    batches,           \* what each run of launch_favourites did
    startup_effect     \* what the latest handler of the tab did

startup_vars == <<tab, is_startup_launch, started_by, startup_processed, autostart_enabled,
                  enum_is_int, user_setting, launch_timers, batches,
                  startup_effect>>

\* a read of the history
VARIABLES
    limit,             \* the limit list_recent is called with
    listed             \* what the latest list_recent did: raised, or the items

read_vars == <<limit, listed>>

\* QTimer: isActive() and, when active, the instant it times out
Stopped == [active |-> FALSE, due |-> 0]
Started(due) == [active |-> TRUE, due |-> due]

States == {"IDLE", "RUNNING", "PAUSED"}
StartTime == MaxAgeTicks
EndTime == MaxAgeTicks + Horizon

\* --------------------------------------------------------- Content Store
\* storage.py:63-74  the ClipboardItem add_text builds, as the row it inserts
ClipboardItem(id, content, t) ==
    [id |-> id, content |-> content, content_hash |-> sha1(content),
     created_at |-> isoformat(t), source_app |-> "None", is_pinned |-> 0]

\* the duplicate check without its time window
check_hash_exists_ever(R, content_hash, t) ==
    Cardinality({r \in R : r.content_hash = content_hash}) > 0

\* storage.py:246-262  SELECT COUNT(*) ... WHERE content_hash = ? AND created_at >= ?
check_hash_exists_in_hours(R, content_hash, t) ==
    LET cutoff_time == isoformat(t - DupWindowTicks)
    IN  Cardinality({r \in R : r.content_hash = content_hash
                                /\ TextLeq(cutoff_time, r.created_at)}) > 0

\* storage.py:278-280  SELECT id ... ORDER BY created_at ASC LIMIT k: every
\* set of k rows no row outside of which is older (ties are SQLite's choice)
OldestRows(R, k) ==
    {S \in SUBSET R : /\ Cardinality(S) = k
                      /\ \A x \in S : \A y \in R \ S :
                            TextLeq(x.created_at, y.created_at)}

\* the count rule deleting the newest rows (ORDER BY created_at DESC)
CountRuleNewest(R) ==
    IF Cardinality(R) > MaxItems
    THEN {S \in SUBSET R : /\ Cardinality(S) = MaxItems
                           /\ \A x \in S : \A y \in R \ S :
                                 TextLeq(x.created_at, y.created_at)}
    ELSE {R}

\* storage.py:273-282  the count rule of _apply_retention
CountRule(R) ==
    IF Cardinality(R) > MaxItems
    THEN {R \ S : S \in OldestRows(R, Cardinality(R) - MaxItems)}
    ELSE {R}

\* storage.py:284-289  the age rule: DELETE ... WHERE created_at < cutoff
AgeRule(R, t) ==
    LET cutoff_date == isoformat(t - MaxAgeTicks)
    IN  {r \in R : ~TextLess(r.created_at, cutoff_date)}

\* retention with the age rule run only when the count rule ran
apply_retention_age_under_cap(R, t) ==
    IF Cardinality(R) > MaxItems THEN {AgeRule(kept, t) : kept \in CountRule(R)} ELSE {R}

\* storage.py:264-292  _apply_retention: the tables it can leave
apply_retention(R, t) == {AgeRule(kept, t) : kept \in CountRule(R)}

\* an insert that refreshes the rows already holding the same content
upsert_row(R, id, content, t) ==
    {IF r.content_hash = sha1(content)
     THEN [r EXCEPT !.created_at = isoformat(t)] ELSE r : r \in R}
        \cup {ClipboardItem(id, content, t)}

\* storage.py:79-92  the INSERT of add_text
insert_row(R, id, content, t) == R \cup {ClipboardItem(id, content, t)}

\* what can go wrong with the database during one debounce handler
FailPoints == {"none", "check", "insert", "retention"}

\* storage.py:56-97  add_text at instant t, the database failing at `fail`:
\* the tables it can leave
add_text(R, id, content, t, fail) ==
    IF fail = "insert" THEN {R}
    ELSE IF fail = "retention" THEN {insert_row(R, id, content, t)}
    ELSE apply_retention(insert_row(R, id, content, t), t)

\* ------------------------------------------------------------- history
\* an operation that emits nothing and does not call add_text
Quiet == [signals |-> <<>>, outcome |-> "-", arg |-> <<>>, by_count |-> 0, removed |-> {}]

Emits(signal) == [Quiet EXCEPT !.signals = <<signal>>]

\* active: a burst is under way; last: the instant of its latest event;
\* multi: it has two events or more; content: what its latest event left to
\* store; qualifying: the handler discarded none of its events; running: the
\* detector has been RUNNING since its first event; inserts, inserted: the
\* rows inserted since it began (2 for two or more) and the content of the
\* latest
NoBurst ==
    [active |-> FALSE, last |-> 0, multi |-> FALSE, content |-> <<>>,
     qualifying |-> TRUE, running |-> TRUE, inserts |-> 0, inserted |-> <<>>]

\* a state change ends the "while RUNNING" of the burst under way
BurstInterrupted == IF burst.active THEN [burst EXCEPT !.running = FALSE] ELSE burst

\* a clipboard-change event at `now`: it continues the burst when it comes
\* less than the debounce interval after the previous event, and opens a
\* new burst otherwise.  content is what the event leaves to store, <<>>
\* when the handler discards the event.
BurstEvent(content) ==
    IF burst.active /\ now - burst.last < DebounceTicks
    THEN [burst EXCEPT !.last = now, !.multi = TRUE, !.content = content,
                       !.qualifying = @ /\ content # <<>>,
                       !.running = @ /\ state = "RUNNING"]
    ELSE [NoBurst EXCEPT !.active = TRUE, !.last = now, !.content = content,
                         !.qualifying = content # <<>>,
                         !.running = (state = "RUNNING")]

AtMostTwo(n) == IF n >= 2 THEN 2 ELSE n

BurstInsert(content) ==
    IF burst.active
    THEN [burst EXCEPT !.inserts = AtMostTwo(@ + 1), !.inserted = content]
    ELSE burst

\* ------------------------------------------------------ Change Detector
\* clipboard_service.py:89-93  _set_state
set_state(new_state) ==
    IF state # new_state
    THEN /\ state' = new_state
         /\ effect' = Emits(<<"clipboard_state_changed", new_state>>)
    ELSE /\ state' = state
         /\ effect' = Quiet

\* clipboard_service.py:41-52
start_listening ==
    /\ IF state = "IDLE"
       THEN /\ set_state("RUNNING")
            /\ connections' = connections + 1
       ELSE /\ UNCHANGED <<state, connections>>
            /\ effect' = Quiet
    /\ burst' = IF state' # state THEN BurstInterrupted ELSE burst
    /\ UNCHANGED <<now, debounce_timer, pending_content, ignore_flag, rows, next_id>>

\* stop_listening leaving the debounce timer running
stop_listening_keep_timer ==
    /\ IF state \in {"RUNNING", "PAUSED"}
       THEN /\ connections' = 0
            /\ set_state("IDLE")
       ELSE /\ UNCHANGED <<state, connections>>
            /\ effect' = Quiet
    /\ burst' = IF state' # state THEN BurstInterrupted ELSE burst
    /\ UNCHANGED <<now, debounce_timer, pending_content, ignore_flag, rows, next_id>>

\* clipboard_service.py:54-63
stop_listening ==
    /\ IF state \in {"RUNNING", "PAUSED"}
       THEN /\ connections' = 0
            /\ debounce_timer' = Stopped
            /\ set_state("IDLE")
       ELSE /\ UNCHANGED <<state, connections, debounce_timer>>
            /\ effect' = Quiet
    /\ burst' = IF state' # state THEN BurstInterrupted ELSE burst
    /\ UNCHANGED <<now, pending_content, ignore_flag, rows, next_id>>

\* pause without its state guard
pause_from_any_state ==
    /\ connections' = 0
    /\ debounce_timer' = Stopped
    /\ set_state("PAUSED")
    /\ burst' = IF state' # state THEN BurstInterrupted ELSE burst
    /\ UNCHANGED <<now, pending_content, ignore_flag, rows, next_id>>

\* clipboard_service.py:65-74
pause ==
    /\ IF state = "RUNNING"
       THEN /\ connections' = 0
            /\ debounce_timer' = Stopped
            /\ set_state("PAUSED")
       ELSE /\ UNCHANGED <<state, connections, debounce_timer>>
            /\ effect' = Quiet
    /\ burst' = IF state' # state THEN BurstInterrupted ELSE burst
    /\ UNCHANGED <<now, pending_content, ignore_flag, rows, next_id>>

\* clipboard_service.py:76-87
resume ==
    /\ IF state = "PAUSED"
       THEN /\ set_state("RUNNING")
            /\ connections' = connections + 1
       ELSE /\ UNCHANGED <<state, connections>>
            /\ effect' = Quiet
    /\ burst' = IF state' # state THEN BurstInterrupted ELSE burst
    /\ UNCHANGED <<now, debounce_timer, pending_content, ignore_flag, rows, next_id>>

\* clipboard_service.py:95-97
ignore_next_change ==
    /\ ignore_flag' = TRUE
    /\ effect' = Quiet
    /\ UNCHANGED <<now, state, connections, debounce_timer, pending_content,
                   rows, next_id, burst>>

\* clipboard_service.py:101-124  does the handler get as far as the debounce?
Qualifies(text, read_ok) ==
    /\ state = "RUNNING"
    /\ ~ignore_flag
    /\ read_ok
    /\ text # <<>> /\ strip(text) # <<>>
    /\ ~(Len(text) > MaxLength)

\* the handler keeping the content already pending while the timer runs
on_clipboard_changed_keep_first(text, read_ok) ==
    IF ~Qualifies(text, read_ok)
    THEN /\ ignore_flag' = IF state = "RUNNING" THEN FALSE ELSE ignore_flag
         /\ UNCHANGED <<pending_content, debounce_timer>>
    ELSE /\ pending_content' = IF debounce_timer.active THEN pending_content
                                ELSE strip(text)
         /\ debounce_timer' = Started(now + DebounceTicks)
         /\ UNCHANGED ignore_flag

\* the handler without the length check
on_clipboard_changed_any_length(text, read_ok) ==
    IF state # "RUNNING" \/ ~read_ok \/ strip(text) = <<>>
    THEN UNCHANGED <<ignore_flag, pending_content, debounce_timer>>
    ELSE IF ignore_flag
    THEN /\ ignore_flag' = FALSE
         /\ UNCHANGED <<pending_content, debounce_timer>>
    ELSE /\ pending_content' = strip(text)
         /\ debounce_timer' = Started(now + DebounceTicks)
         /\ UNCHANGED ignore_flag

\* clipboard_service.py:99-128  _on_clipboard_changed, the clipboard holding text
on_clipboard_changed(text, read_ok) ==
    IF state # "RUNNING"
    THEN UNCHANGED <<ignore_flag, pending_content, debounce_timer>>
    ELSE IF ignore_flag
    THEN /\ ignore_flag' = FALSE
         /\ UNCHANGED <<pending_content, debounce_timer>>
    ELSE IF ~read_ok
    THEN UNCHANGED <<ignore_flag, pending_content, debounce_timer>>
    ELSE IF text = <<>> \/ strip(text) = <<>>
    THEN UNCHANGED <<ignore_flag, pending_content, debounce_timer>>
    ELSE IF Len(text) > MaxLength
    THEN UNCHANGED <<ignore_flag, pending_content, debounce_timer>>
    ELSE /\ pending_content' = strip(text)
         /\ debounce_timer' = Started(now + DebounceTicks)
         /\ UNCHANGED ignore_flag

\* the signal reaching the handler whatever the connection and the state
clipboard_changed_unguarded ==
    \E read_ok \in BOOLEAN : \E text \in IF read_ok THEN Texts ELSE {<<>>} :
        /\ IF read_ok /\ strip(text) # <<>> /\ ~(Len(text) > MaxLength)
           THEN /\ pending_content' = strip(text)
                /\ debounce_timer' = Started(now + DebounceTicks)
                /\ UNCHANGED ignore_flag
           ELSE UNCHANGED <<ignore_flag, pending_content, debounce_timer>>
        /\ effect' = Quiet
        /\ burst' = BurstEvent(IF connections > 0 /\ Qualifies(text, read_ok)
                               THEN strip(text) ELSE <<>>)
        /\ UNCHANGED <<now, state, connections, rows, next_id>>

\* the clipboard's dataChanged signal, the clipboard holding text: every
\* connected handler runs
clipboard_changed ==
    \E read_ok \in BOOLEAN : \E text \in IF read_ok THEN Texts ELSE {<<>>} :
        /\ IF connections > 0
           THEN on_clipboard_changed(text, read_ok)
           ELSE UNCHANGED <<ignore_flag, pending_content, debounce_timer>>
        /\ effect' = Quiet
        /\ burst' = BurstEvent(IF connections > 0 /\ Qualifies(text, read_ok)
                               THEN strip(text) ELSE <<>>)
        /\ UNCHANGED <<now, state, connections, rows, next_id>>

\* item_added emitted whatever add_text did
emit_item_added_always(fail) == << <<"item_added">> >>

\* clipboard_service.py:149-155  item_added.emit() follows add_text inside the
\* try: it is skipped when add_text raises
emit_item_added(fail) ==
    IF fail = "none" THEN << <<"item_added">> >> ELSE <<>>

\* clipboard_service.py:130-155  _process_clipboard_change, run by the
\* debounce timer's timeout
process_clipboard_change ==
    /\ debounce_timer.active
    /\ now >= debounce_timer.due
    /\ debounce_timer' = Stopped
    /\ \E fail \in FailPoints :
        IF pending_content = <<>>
        THEN /\ effect' = [Quiet EXCEPT !.outcome = "empty"]
             /\ UNCHANGED <<pending_content, rows, next_id, burst>>
        ELSE LET content == pending_content
                 content_hash == sha1(content)
             IN  /\ pending_content' = <<>>
                 /\ IF fail = "check"
                    THEN \* the query raises: the exception leaves the handler
                         /\ effect' = [Quiet EXCEPT !.outcome = "check_raised",
                                                    !.arg = content]
                         /\ UNCHANGED <<rows, next_id, burst>>
                    ELSE IF check_hash_exists_in_hours(rows, content_hash, now)
                    THEN /\ effect' = [Quiet EXCEPT !.outcome = "duplicate",
                                                    !.arg = content]
                         /\ UNCHANGED <<rows, next_id, burst>>
                    ELSE \E R \in add_text(rows, next_id, content, now, fail) :
                         LET count == Cardinality(rows) + 1
                             outcome == IF fail = "none" THEN "stored"
                                        ELSE IF fail = "insert" THEN "insert_raised"
                                        ELSE "retention_raised"
                         IN  /\ rows' = R
                             /\ next_id' = next_id + 1
                             /\ effect' =
                                  [signals |-> emit_item_added(fail),
                                   outcome |-> outcome,
                                   arg |-> content,
                                   by_count |-> IF fail = "none" /\ count > MaxItems
                                                THEN count - MaxItems ELSE 0,
                                   removed |-> insert_row(rows, next_id, content, now) \ R]
                             /\ burst' = IF fail = "insert" THEN burst
                                         ELSE BurstInsert(content)
    /\ UNCHANGED <<now, state, connections, ignore_flag>>

\* storage.py:216-224  delete_item, from the history page
delete_item ==
    /\ \E id \in 0..next_id : rows' = {r \in rows : r.id # id}
    /\ effect' = Quiet
    /\ UNCHANGED <<now, state, connections, debounce_timer, pending_content,
                   ignore_flag, next_id, burst>>

\* storage.py:206-214  clear_all
clear_all ==
    /\ rows' = {}
    /\ effect' = Quiet
    /\ UNCHANGED <<now, state, connections, debounce_timer, pending_content,
                   ignore_flag, next_id, burst>>

\* time passes; the event loop runs a due timer before it does
Tick ==
    /\ now < EndTime
    /\ debounce_timer.active => now < debounce_timer.due
    /\ now' = now + 1
    /\ effect' = Quiet
    /\ burst' = IF burst.active /\ now + 1 > burst.last + DebounceTicks
                THEN NoBurst ELSE burst
    /\ UNCHANGED <<state, connections, debounce_timer, pending_content,
                   ignore_flag, rows, next_id>>

ClipInit ==
    /\ now = StartTime
    /\ state = "IDLE"
    /\ connections = 0
    /\ debounce_timer = Stopped
    /\ pending_content = <<>>
    /\ ignore_flag = FALSE
    /\ rows = {}
    /\ next_id = 0
    /\ effect = Quiet
    /\ burst = NoBurst

ClipNext ==
    \/ start_listening /\ UNCHANGED <<launch_vars, config_vars, startup_vars, read_vars>>
    \/ stop_listening /\ UNCHANGED <<launch_vars, config_vars, startup_vars, read_vars>>
    \/ pause /\ UNCHANGED <<launch_vars, config_vars, startup_vars, read_vars>>
    \/ resume /\ UNCHANGED <<launch_vars, config_vars, startup_vars, read_vars>>
    \/ ignore_next_change /\ UNCHANGED <<launch_vars, config_vars, startup_vars, read_vars>>
    \/ clipboard_changed /\ UNCHANGED <<launch_vars, config_vars, startup_vars, read_vars>>
    \/ process_clipboard_change /\ UNCHANGED <<launch_vars, config_vars, startup_vars, read_vars>>
    \/ delete_item /\ UNCHANGED <<launch_vars, config_vars, startup_vars, read_vars>>
    \/ clear_all /\ UNCHANGED <<launch_vars, config_vars, startup_vars, read_vars>>
    \/ Tick /\ UNCHANGED <<launch_vars, config_vars, startup_vars, read_vars>>

\* ============================================================== launcher
\* services/launcher_service.py.  A call is modelled with its environment as
\* input: which paths exist, what the shortcut resolves to, which of the
\* launch invocations the call makes fail (by ordinal), and whether the try
\* body raises outside its guarded calls.  The sleeps between launches change
\* no state and are left out.

\* longest URL list of a favourite (at least 3, so that MaxCalls covers every
\* path through launch_browser_urls)
MaxUrls == 3

\* most launch invocations one call makes: the executable with the first
\* URL, then a Popen and an os.startfile for every remaining URL
MaxCalls == 2 * MaxUrls - 1

\* paths are <<stem, extension>>, extensions in lower case
LnkPath == <<"favourite", ".lnk">>
ExePath == <<"favourite", ".exe">>
DocPath == <<"favourite", ".url">>
Paths == {LnkPath, ExePath, DocPath}

endswith(path, suffix) == path[Len(path)] = suffix

Urls == {<<"https://", "a">>, <<"https://", "b">>}

RECURSIVE UrlListsUpTo(_)
UrlListsUpTo(n) ==
    IF n = 0 THEN {<<>>}
    ELSE LET shorter == UrlListsUpTo(n - 1)
         IN  shorter \cup {Append(l, u) : l \in {x \in shorter : Len(x) = n - 1}, u \in Urls}

UrlLists == UrlListsUpTo(MaxUrls)

Kinds == {"app", "browser", "working_app"}

Favourites == [kind : Kinds, lnk_path : {LnkPath}, browser_links : UrlLists]

\* a call in progress: the launch invocations made so far (in order, each with
\* whether it succeeded), the shortcut resolutions made, the local
\* success_count, the value returned and whether an exception escaped
NoRun == [log |-> <<>>, resolves |-> 0, success_count |-> 0,
          result |-> FALSE, raised |-> FALSE]

Invoke(run, fn, args, fails) ==
    [run EXCEPT !.log = Append(@, [fn |-> fn, args |-> args,
                                    ok |-> (Len(@) + 1) \notin fails])]

LastOk(run) == run.log[Len(run.log)].ok

Return(run, value) == [run EXCEPT !.result = value]

Raise(run) == [run EXCEPT !.raised = TRUE]

\* _resolve_lnk never raises: it returns the target, or the shortcut path
\* itself when the resolution fails (the input `resolved`)
resolve_lnk(run) == [run EXCEPT !.resolves = @ + 1]

\* the access token of the process an invocation creates: ShellExecuteW
\* with "open", os.startfile and subprocess.Popen create the child with the
\* caller's token; only the verb "runas" asks for another one
child_token(inv) ==
    IF is_admin \/ \E a \in DOMAIN inv.args : inv.args[a] = <<"runas">>
    THEN "elevated"
    ELSE "normal"

\* ShellExecuteW with the "open" verb; returns result > 32, never raises
launch_with_normal_user(run, target_path, fails) ==
    Invoke(run, "ShellExecuteW", <<<<"open">>, target_path>>, fails)

\* os.startfile raises when it fails
os_startfile(run, path, fails) == Invoke(run, "os.startfile", <<path>>, fails)

\* subprocess.Popen(args, shell=True) raises when it fails
Popen(run, args, fails) == Invoke(run, "subprocess.Popen", args, fails)

\* the try body of launch_app
launch_app_try(lnk_path, existing, resolved, fails, unexpected) ==
    IF unexpected THEN Raise(NoRun)
    ELSE IF lnk_path \notin existing THEN
        LET r0 == resolve_lnk(NoRun)
        IN  IF resolved # lnk_path /\ resolved \in existing THEN
                LET r1 == launch_with_normal_user(r0, resolved, fails)
                IN  IF LastOk(r1) THEN Return(r1, TRUE)
                    ELSE LET r2 == os_startfile(r1, resolved, fails)
                         IN  Return(r2, LastOk(r2))
            ELSE Return(r0, FALSE)
    ELSE
        LET r1 == launch_with_normal_user(NoRun, lnk_path, fails)
        IN  IF LastOk(r1) THEN Return(r1, TRUE)
            ELSE LET r2 == os_startfile(r1, lnk_path, fails)
                 IN  Return(r2, LastOk(r2))

\* the handler of launch_app: resolve and launch the executable directly
launch_app_except(run, lnk_path, existing, resolved, fails) ==
    LET r0 == resolve_lnk([run EXCEPT !.raised = FALSE])
    IN  IF resolved # lnk_path /\ resolved \in existing THEN
            LET r1 == launch_with_normal_user(r0, resolved, fails)
            IN  IF LastOk(r1) THEN Return(r1, TRUE)
                ELSE LET r2 == os_startfile(r1, resolved, fails)
                     IN  IF LastOk(r2) THEN Return(r2, TRUE)
                         ELSE LET r3 == Popen(r2, <<resolved>>, fails)
                              IN  Return(r3, LastOk(r3))
        ELSE Return(r0, FALSE)

\* launch_app without its outer handler
launch_app_unguarded(lnk_path, existing, resolved, fails, unexpected) ==
    launch_app_try(lnk_path, existing, resolved, fails, unexpected)

launch_app(lnk_path, existing, resolved, fails, unexpected) ==
    LET body == launch_app_try(lnk_path, existing, resolved, fails, unexpected)
    IN  IF body.raised
        THEN launch_app_except(body, lnk_path, existing, resolved, fails)
        ELSE body

\* for url in urls: Popen([url]), counting the ones that did not raise.
\* (Where `time` is still unbound the sleep after the count raises and is
\* caught by the same handler; the count is already made.)
RECURSIVE open_urls_from(_, _, _, _)
open_urls_from(run, urls, i, fails) ==
    IF i > Len(urls) THEN run
    ELSE LET r1 == Popen(run, <<urls[i]>>, fails)
         IN  open_urls_from(
                 IF LastOk(r1) THEN [r1 EXCEPT !.success_count = @ + 1] ELSE r1,
                 urls, i + 1, fails)

open_urls_directly(run, urls, fails) ==
    open_urls_from([run EXCEPT !.success_count = 0], urls, 1, fails)

\* for url in urls[i:]: Popen([exe_path, url]), os.startfile(url) if it raises
RECURSIVE open_remaining_from(_, _, _, _, _)
open_remaining_from(run, exe_path, urls, i, fails) ==
    IF i > Len(urls) THEN run
    ELSE LET r1 == Popen(run, <<exe_path, urls[i]>>, fails)
         IN  IF LastOk(r1)
             THEN open_remaining_from([r1 EXCEPT !.success_count = @ + 1],
                                      exe_path, urls, i + 1, fails)
             ELSE LET r2 == os_startfile(r1, urls[i], fails)
                  IN  open_remaining_from(
                          IF LastOk(r2) THEN [r2 EXCEPT !.success_count = @ + 1] ELSE r2,
                          exe_path, urls, i + 1, fails)

\* the loop run over the whole list, the first URL included
open_remaining_again(run, exe_path, urls, fails) ==
    open_remaining_from(run, exe_path, urls, 1, fails)

open_remaining(run, exe_path, urls, fails) ==
    open_remaining_from(run, exe_path, urls, 2, fails)

\* a result that counts every launch, the browser's own included
any_launched(run) == \E i \in DOMAIN run.log : run.log[i].ok

\* return success_count > 0
any_opened(run) == run.success_count > 0

\* the try body of launch_browser_urls
launch_browser_urls_try(browser_lnk, urls, existing, resolved, fails, unexpected) ==
    LET r0 == resolve_lnk(NoRun)
        exe_path == resolved
    IN  IF unexpected THEN Raise(r0)
        ELSE IF \/ exe_path \notin existing
                \/ ~(endswith(exe_path, ".exe") \/ endswith(exe_path, ".lnk"))
        THEN
            \* the shortcut itself, its failure ignored, then every URL
            LET r1 == Popen(r0, <<browser_lnk>>, fails)
                r2 == open_urls_directly(r1, urls, fails)
            IN  Return(r2, any_opened(r2))
        ELSE
            LET r1 == Popen(r0, <<exe_path, urls[1]>>, fails)
            IN  IF LastOk(r1) THEN
                    LET r2 == open_remaining([r1 EXCEPT !.success_count = 1],
                                             exe_path, urls, fails)
                    IN  Return(r2, any_opened(r2))
                ELSE
                    LET r2 == Popen(r1, <<browser_lnk>>, fails)
                    IN  IF LastOk(r2) THEN
                            LET r3 == open_urls_directly(r2, urls, fails)
                            IN  Return(r3, any_opened(r3))
                        ELSE Return(r2, FALSE)

\* the handler of launch_browser_urls: open the URLs directly
launch_browser_urls_except(run, urls, fails) ==
    LET r1 == open_urls_directly([run EXCEPT !.raised = FALSE], urls, fails)
    IN  Return(r1, any_opened(r1))

launch_browser_urls(browser_lnk, urls, existing, resolved, fails, unexpected) ==
    IF urls = <<>> THEN Return(NoRun, FALSE)
    ELSE LET body == launch_browser_urls_try(browser_lnk, urls, existing,
                                             resolved, fails, unexpected)
         IN  IF body.raised
             THEN launch_browser_urls_except(body, urls, fails)
             ELSE body

Dispatch(favourite) ==
    IF favourite.kind = "browser" /\ favourite.browser_links # <<>>
    THEN "launch_browser_urls" ELSE "launch_app"

test_favourite(favourite, existing, resolved, fails, unexpected) ==
    IF favourite.kind = "browser" /\ favourite.browser_links # <<>>
    THEN launch_browser_urls(favourite.lnk_path, favourite.browser_links,
                             existing, resolved, fails, unexpected)
    ELSE launch_app(favourite.lnk_path, existing, resolved, fails, unexpected)

NoCall == [callee |-> "-", out |-> NoRun]

\* the environments a call can meet
LaunchEnvironments ==
    /\ fav \in Favourites
    /\ target \in Paths
    /\ on_disk \in SUBSET {fav.lnk_path, target}
    /\ failing \in SUBSET (1..MaxCalls)
    /\ faulty \in BOOLEAN
    /\ is_admin \in BOOLEAN

\* launch_app is called on the favourite's shortcut
LaunchApp ==
    /\ last_launch' = [callee |-> "launch_app",
                       out |-> launch_app(fav.lnk_path, on_disk, target,
                                          failing, faulty)]
    /\ UNCHANGED <<fav, on_disk, target, failing, faulty, is_admin>>
    /\ UNCHANGED <<clip_vars, config_vars, startup_vars, read_vars>>

\* launch_browser_urls is called on the favourite's shortcut and links
LaunchBrowserUrls ==
    /\ last_launch' = [callee |-> "launch_browser_urls",
                       out |-> launch_browser_urls(fav.lnk_path, fav.browser_links,
                                                   on_disk, target, failing, faulty)]
    /\ UNCHANGED <<fav, on_disk, target, failing, faulty, is_admin>>
    /\ UNCHANGED <<clip_vars, config_vars, startup_vars, read_vars>>

\* the Test button of a favourite, and the launch of the selected favourites
TestFavourite ==
    /\ last_launch' = [callee |-> Dispatch(fav),
                       out |-> test_favourite(fav, on_disk, target, failing, faulty)]
    /\ UNCHANGED <<fav, on_disk, target, failing, faulty, is_admin>>
    /\ UNCHANGED <<clip_vars, config_vars, startup_vars, read_vars>>

\* no call made; the clipboard tool runs in one fixed environment
LaunchInit ==
    /\ fav = [kind |-> "app", lnk_path |-> LnkPath, browser_links |-> <<>>]
    /\ on_disk = {}
    /\ target = LnkPath
    /\ failing = {}
    /\ faulty = FALSE
    /\ is_admin = FALSE
    /\ last_launch = NoCall

LaunchNext ==
    \/ LaunchApp
    \/ LaunchBrowserUrls
    \/ TestFavourite

\* ================================================================ config
\* storage/config_store.py and models/config_models.py.  Of the document only
\* the starter settings, the favourites and email_registered are kept; the
\* version, the language and the admin preferences take no part in what
\* follows.

\* delay_seconds: the first entry of the delay combo, and the dataclass default
Delays == {1, 10}

StarterSettings(trigger, delay) ==
    [trigger_selected_on_startup |-> trigger, delay_seconds |-> delay]

\* the favourites a configuration can hold
MaxFavourites == 2

FavouriteKinds == {"app", "browser"}

Favourite(id, kind, selected) ==
    [id |-> id, kind |-> kind, lnk_path |-> LnkPath,
     browser_links |-> IF kind = "browser" THEN <<CHOOSE u \in Urls : TRUE>> ELSE <<>>,
     selected |-> selected]

RECURSIVE FavouriteListsUpTo(_)
FavouriteListsUpTo(n) ==
    IF n = 0 THEN {<<>>}
    ELSE LET shorter == FavouriteListsUpTo(n - 1)
         IN  shorter \cup {Append(l, Favourite(n, k, sel)) :
                              l \in {x \in shorter : Len(x) = n - 1},
                              k \in FavouriteKinds, sel \in BOOLEAN}

FavouriteLists == FavouriteListsUpTo(MaxFavourites)

\* AppConfig(): the dataclass has no field email_registered
AppConfig ==
    [starter_settings |-> StarterSettings(FALSE, 10), favourites |-> <<>>,
     email_registered |-> "missing"]

\* ConfigStore.config before load()
NoConfig == [AppConfig EXCEPT !.email_registered = "None"]

\* a file: whether it exists and the chunks written to it
NoFile == [exists |-> FALSE, content |-> <<>>]

File(content) == [exists |-> TRUE, content |-> content]

\* _serialize reads config.email_registered and raises AttributeError when
\* the attribute was never set
serialize_raises(cfg) == cfg.email_registered = "missing"

serialize(cfg) ==
    [starter_settings |-> cfg.starter_settings, favourites |-> cfg.favourites,
     email_registered |-> cfg.email_registered]

\* json.dump writes the document to the file chunk after chunk
DocumentKeys == <<"starter_settings", "favourites", "email_registered">>

json_dump(data) ==
    << [key |-> "starter_settings", value |-> data.starter_settings],
       [key |-> "favourites", value |-> data.favourites],
       [key |-> "email_registered", value |-> data.email_registered] >>

\* the save that writes the target in place
write_in_place(content) ==
    /\ config_file' = File(content)
    /\ UNCHANGED temp_file

\* what json.dump has written so far lands in config.tmp
write_temp(content) ==
    /\ temp_file' = File(content)
    /\ UNCHANGED config_file

\* save() up to the open of config.tmp: serialize, then open(temp_file, "w")
save_begin(cfg) ==
    IF serialize_raises(cfg)
    THEN /\ save_pc' = "raised"
         /\ UNCHANGED <<config_file, temp_file, save_data, save_previous>>
    ELSE /\ save_pc' = "writing"
         /\ save_data' = serialize(cfg)
         /\ save_previous' = config_file
         /\ write_temp(<<>>)

\* save() as one step, for the handlers that end in it
save(cfg) ==
    IF serialize_raises(cfg)
    THEN /\ save_pc' = "raised"
         /\ UNCHANGED <<config_file, temp_file, save_data, save_previous>>
    ELSE /\ save_pc' = "idle"
         /\ save_data' = serialize(cfg)
         /\ save_previous' = config_file
         /\ config_file' = File(json_dump(serialize(cfg)))
         /\ temp_file' = NoFile

Saving == save_pc = "writing"

Ready == process = "running" /\ ~Saving

\* config_store.py:100-107  _deserialize ends in AppConfig(...,
\* email_registered=...): the dataclass has no such field, the call raises
\* TypeError whatever the document
deserialize_raises(document) == TRUE

\* config_store.py:81-99  what _deserialize reads out of the document
deserialize(document) ==
    [starter_settings |-> document[1].value, favourites |-> document[2].value,
     email_registered |-> document[3].value]

\* load(): a file that exists is parsed and handed to _deserialize; when
\* that raises the handler falls back to AppConfig().  Without a file,
\* AppConfig() is saved.
load ==
    /\ Ready
    /\ config = NoConfig
    /\ config' = IF config_file.exists /\ ~deserialize_raises(config_file.content)
                 THEN deserialize(config_file.content)
                 ELSE AppConfig
    /\ IF config_file.exists
       THEN /\ save_pc' = "idle"
            /\ UNCHANGED <<config_file, temp_file, save_data, save_previous>>
       ELSE save_begin(AppConfig)
    /\ UNCHANGED process

\* set_email_registered(True), after the registration dialog
set_email_registered ==
    /\ Ready
    /\ config # NoConfig
    /\ config' = [config EXCEPT !.email_registered = "True"]
    /\ save_begin(config')
    /\ UNCHANGED process

\* update_starter_settings(settings)
update_starter_settings ==
    /\ Ready
    /\ config # NoConfig
    /\ \E trigger \in BOOLEAN, delay \in Delays :
          config' = [config EXCEPT !.starter_settings = StarterSettings(trigger, delay)]
    /\ save_begin(config')
    /\ UNCHANGED process

\* json.dump writes the next chunk, or fails to (the disk is full) and the
\* exception leaves save
save_write ==
    /\ process = "running"
    /\ Saving
    /\ Len(temp_file.content) < Len(json_dump(save_data))
    /\ \E written \in BOOLEAN :
          IF written
          THEN /\ write_temp(Append(temp_file.content,
                                    json_dump(save_data)[Len(temp_file.content) + 1]))
               /\ UNCHANGED save_pc
          ELSE /\ save_pc' = "raised"
               /\ UNCHANGED <<config_file, temp_file>>
    /\ UNCHANGED <<config, save_data, save_previous, process>>

\* the file is closed and temp_file.replace(config_file) renames it over
\* the target, or fails to and raises
save_replace ==
    /\ process = "running"
    /\ Saving
    /\ Len(temp_file.content) = Len(json_dump(save_data))
    /\ \E replaced \in BOOLEAN :
          IF replaced
          THEN /\ config_file' = temp_file
               /\ temp_file' = NoFile
               /\ save_pc' = "idle"
          ELSE /\ save_pc' = "raised"
               /\ UNCHANGED <<config_file, temp_file>>
    /\ UNCHANGED <<config, save_data, save_previous, process>>

\* the process dies where it stands; the files stay as they are
crash ==
    /\ process = "running"
    /\ process' = "crashed"
    /\ UNCHANGED <<config, config_file, temp_file, save_pc, save_data, save_previous>>

\* the application is started again
restart ==
    /\ process = "crashed"
    /\ process' = "running"
    /\ config' = NoConfig
    /\ save_pc' = "idle"
    /\ UNCHANGED <<config_file, temp_file, save_data, save_previous>>

\* the documents a configuration file can hold
Documents ==
    {json_dump([starter_settings |-> StarterSettings(trigger, delay),
                favourites |-> <<>>, email_registered |-> "True"]) :
        trigger \in BOOLEAN, delay \in Delays}

ConfigInit ==
    /\ config = NoConfig
    /\ config_file = NoFile
    /\ temp_file = NoFile
    /\ save_pc = "idle"
    /\ save_data = serialize(AppConfig)
    /\ save_previous = NoFile
    /\ process = "running"

\* the store as constructed, over whatever config.json an earlier run left
ConfigFiles ==
    /\ config = NoConfig
    /\ config_file \in {NoFile} \cup {File(d) : d \in Documents}
    /\ temp_file = NoFile
    /\ save_pc = "idle"
    /\ save_data = serialize(AppConfig)
    /\ save_previous = config_file
    /\ process = "running"

ConfigNext ==
    \/ load /\ UNCHANGED <<clip_vars, launch_vars, startup_vars, read_vars>>
    \/ set_email_registered /\ UNCHANGED <<clip_vars, launch_vars, startup_vars, read_vars>>
    \/ update_starter_settings /\ UNCHANGED <<clip_vars, launch_vars, startup_vars, read_vars>>
    \/ save_write /\ UNCHANGED <<clip_vars, launch_vars, startup_vars, read_vars>>
    \/ save_replace /\ UNCHANGED <<clip_vars, launch_vars, startup_vars, read_vars>>
    \/ crash /\ UNCHANGED <<clip_vars, launch_vars, startup_vars, read_vars>>
    \/ restart /\ UNCHANGED <<clip_vars, launch_vars, startup_vars, read_vars>>

\* =============================================================== startup
\* ui/tabs/settings_tab.py.  A handler that ends in ConfigStore.save takes the
\* save as part of its step.  An exception that leaves a slot or a timer
\* callback is reported by Qt and the event loop goes on.

NoTab == [phase |-> "none", checked |-> FALSE, delay |-> 1]

\* two saves one after the other in the same handler
save_twice(first, second) ==
    IF serialize_raises(first) \/ serialize_raises(second)
    THEN save(second)
    ELSE /\ save_pc' = "idle"
         /\ save_data' = serialize(second)
         /\ save_previous' = File(json_dump(serialize(first)))
         /\ config_file' = File(json_dump(serialize(second)))
         /\ temp_file' = NoFile

\* state == Qt.CheckState.Checked, state being the int stateChanged carries
is_checked_state(checked) == enum_is_int /\ checked

\* SettingsTab.__init__: load_settings turns the trigger on and saves it when
\* it finds it off, then checks the box, whose stateChanged runs
\* on_trigger_changed while the delay combo still shows its first entry; the
\* startup check is armed.
SettingsTab_init ==
    /\ process = "running"
    /\ tab.phase = "none"
    /\ config # NoConfig
    /\ LET settings == config.starter_settings
           migrated == [config EXCEPT
                          !.starter_settings.trigger_selected_on_startup = TRUE]
           changed  == [config EXCEPT
                          !.starter_settings = StarterSettings(is_checked_state(TRUE), 1)]
       IN  IF ~settings.trigger_selected_on_startup /\ serialize_raises(migrated)
           THEN \* update_starter_settings raises out of the constructor
                /\ config' = migrated
                /\ save(migrated)
                /\ tab' = [tab EXCEPT !.phase = "failed"]
                /\ startup_effect' = "init_raised"
           ELSE /\ config' = changed
                /\ IF ~settings.trigger_selected_on_startup
                   THEN save_twice(migrated, changed)
                   ELSE save(changed)
                /\ tab' = [phase |-> "ready", checked |-> TRUE,
                           delay |-> settings.delay_seconds]
                /\ startup_effect' = "constructed"
    /\ UNCHANGED <<process, is_startup_launch, started_by, startup_processed, autostart_enabled,
                   enum_is_int, user_setting, launch_timers, batches>>

\* the guard that ignores the autostart task in place of the launch flag
autostart_task_exists == autostart_enabled

\* _is_windows_boot_recent
is_windows_boot_recent == is_startup_launch

\* a guard that never finds the startup processed
never_processed == FALSE

\* if self.startup_processed
already_processed == startup_processed

selected_favourites(favourites) == SelectSeq(favourites, LAMBDA f : f.selected)

\* check_startup_trigger, run by its timer one second after construction
check_startup_trigger ==
    /\ process = "running"
    /\ tab.phase = "ready"
    /\ IF already_processed
       THEN /\ startup_effect' = "skipped"
            /\ UNCHANGED <<config, config_file, temp_file, save_pc, save_data,
                           save_previous, startup_processed, launch_timers>>
       ELSE IF ~is_windows_boot_recent
       THEN /\ startup_effect' = "not_startup"
            /\ UNCHANGED <<config, config_file, temp_file, save_pc, save_data,
                           save_previous, startup_processed, launch_timers>>
       ELSE LET migrated == [config EXCEPT
                               !.starter_settings.trigger_selected_on_startup = TRUE]
                selected == selected_favourites(config.favourites)
            IN  /\ config' = migrated
                /\ IF config.starter_settings.trigger_selected_on_startup
                   THEN UNCHANGED <<config_file, temp_file, save_pc, save_data,
                                    save_previous>>
                   ELSE save(migrated)
                /\ IF ~config.starter_settings.trigger_selected_on_startup
                      /\ serialize_raises(migrated)
                   THEN /\ startup_effect' = "migration_raised"
                        /\ UNCHANGED <<startup_processed, launch_timers>>
                   ELSE /\ startup_processed' = TRUE
                        /\ IF selected = <<>>
                           THEN /\ startup_effect' = "no_selected"
                                /\ UNCHANGED launch_timers
                           ELSE /\ startup_effect' = "scheduled"
                                /\ launch_timers' =
                                      Append(launch_timers,
                                             [favourites |-> selected,
                                              delay |-> config.starter_settings.delay_seconds])
    /\ UNCHANGED <<process, tab, is_startup_launch, started_by, autostart_enabled, enum_is_int,
                   user_setting, batches>>

\* what a launch of the batch can meet: the shortcut found or not, every
\* launch invocation failing or none, and test_favourite raising (the rest
\* is then not read)
StartupEnvironments ==
    {env \in [on_disk : {{}, {LnkPath}}, failing : {{}, 1..MaxCalls},
              raises : BOOLEAN] :
        env.raises => env.on_disk = {} /\ env.failing = {}}

attempt(favourite, env) ==
    IF env.raises THEN "raised"
    ELSE IF test_favourite(favourite, env.on_disk, LnkPath, env.failing, FALSE).result
    THEN "launched" ELSE "failed"

\* LoggingService.error(message) takes no keyword: called with exc_info=True
\* it raises TypeError
error_raises(keywords) == keywords # {}

\* the loop of launch_favourites from favourite i on
RECURSIVE launch_from(_, _, _, _)
launch_from(favourites, envs, i, attempts) ==
    IF i > Len(favourites) THEN [attempts |-> attempts, raised |-> FALSE]
    ELSE LET outcome == attempt(favourites[i], envs[i])
         IN  IF outcome = "raised"
             THEN \* except Exception: logging_service.error(..., exc_info=True)
                  IF error_raises({"exc_info"})
                  THEN [attempts |-> Append(attempts, outcome), raised |-> TRUE]
                  ELSE launch_from(favourites, envs, i + 1, Append(attempts, outcome))
             ELSE launch_from(favourites, envs, i + 1, Append(attempts, outcome))

\* launch_favourites, run by the timer check_startup_trigger set
launch_favourites ==
    /\ process = "running"
    /\ launch_timers # <<>>
    /\ LET favourites == Head(launch_timers).favourites
       IN  \E envs \in [1..Len(favourites) -> StartupEnvironments] :
              LET run == launch_from(favourites, envs, 1, <<>>)
              IN  /\ batches' = Append(batches,
                                       [favourites |-> favourites,
                                        attempts |-> run.attempts,
                                        raised |-> run.raised])
                  /\ startup_effect' = IF run.raised THEN "batch_raised" ELSE "batch_done"
    /\ launch_timers' = Tail(launch_timers)
    /\ UNCHANGED <<config_vars, tab, is_startup_launch, started_by, startup_processed,
                   autostart_enabled, enum_is_int, user_setting>>

\* on_trigger_changed: the user clicks the checkbox
on_trigger_changed ==
    /\ process = "running"
    /\ tab.phase = "ready"
    /\ LET checked == ~tab.checked
           changed == [config EXCEPT
                         !.starter_settings =
                             StarterSettings(is_checked_state(checked), tab.delay)]
       IN  /\ tab' = [tab EXCEPT !.checked = checked]
           /\ user_setting' = checked
           /\ config' = changed
           /\ save(changed)
           /\ startup_effect' = IF serialize_raises(changed) THEN "save_raised" ELSE "saved"
    /\ UNCHANGED <<process, is_startup_launch, started_by, startup_processed, autostart_enabled,
                   enum_is_int, launch_timers, batches>>

\* on_save: the Save button
on_save ==
    /\ process = "running"
    /\ tab.phase = "ready"
    /\ LET changed == [config EXCEPT
                         !.starter_settings = StarterSettings(tab.checked, tab.delay)]
       IN  /\ config' = changed
           /\ save(changed)
           /\ startup_effect' = IF serialize_raises(changed) THEN "save_raised" ELSE "saved"
    /\ UNCHANGED <<process, tab, is_startup_launch, started_by, startup_processed,
                   autostart_enabled, enum_is_int, user_setting, launch_timers, batches>>

\* the user picks another entry of the delay combo
delay_selected ==
    /\ process = "running"
    /\ tab.phase = "ready"
    /\ \E delay \in Delays \ {tab.delay} : tab' = [tab EXCEPT !.delay = delay]
    /\ startup_effect' = "-"
    /\ UNCHANGED <<config_vars, is_startup_launch, started_by, startup_processed,
                   autostart_enabled, enum_is_int, user_setting, launch_timers, batches>>

\* the Favourite objects of a list, the one with this id having its
\* selected flag flipped
with_selected_flipped(favourites, id) ==
    [k \in DOMAIN favourites |->
        IF favourites[k].id = id
        THEN [favourites[k] EXCEPT !.selected = ~@]
        ELSE favourites[k]]

\* favourite_tab.py:189-192, 319-321  the checkbox of a favourite's row:
\* the flag of the Favourite object is set, then the configuration saved.
\* The lists waiting in the launch timers hold the same objects.
on_selected_changed ==
    /\ process = "running"
    /\ tab.phase = "ready"
    /\ \E k \in DOMAIN config.favourites :
          LET id == config.favourites[k].id
              changed == [config EXCEPT
                            !.favourites = with_selected_flipped(@, id)]
          IN  /\ config' = changed
              /\ launch_timers' =
                    [t \in DOMAIN launch_timers |->
                        [launch_timers[t] EXCEPT
                            !.favourites = with_selected_flipped(@, id)]]
              /\ save(changed)
              /\ startup_effect' =
                    IF serialize_raises(changed) THEN "save_raised" ELSE "saved"
    /\ UNCHANGED <<process, tab, is_startup_launch, started_by, startup_processed,
                   autostart_enabled, enum_is_int, user_setting, batches>>

\* favourite_tab.py:342-353, config_store.py:139-145  a favourite is deleted:
\* config.favourites becomes a new list without it, and is saved
on_favourite_delete ==
    /\ process = "running"
    /\ tab.phase = "ready"
    /\ \E k \in DOMAIN config.favourites :
          LET id == config.favourites[k].id
              changed == [config EXCEPT
                            !.favourites = SelectSeq(@, LAMBDA f : f.id # id)]
          IN  /\ config' = changed
              /\ save(changed)
              /\ startup_effect' =
                    IF serialize_raises(changed) THEN "save_raised" ELSE "saved"
    /\ UNCHANGED <<process, tab, is_startup_launch, started_by, startup_processed,
                   autostart_enabled, enum_is_int, user_setting, launch_timers,
                   batches>>

StartupInit ==
    /\ tab = NoTab
    /\ is_startup_launch = FALSE
    /\ started_by = "user"
    /\ startup_processed = FALSE
    /\ autostart_enabled = FALSE
    /\ enum_is_int = FALSE
    /\ user_setting = FALSE
    /\ launch_timers = <<>>
    /\ batches = <<>>
    /\ startup_effect = "-"

\* startup_service.py:44-60  the command line StartupService.enable gives
\* the scheduled task: the executable of a frozen build, the interpreter
\* and main.py otherwise
task_command(frozen) ==
    IF frozen THEN <<"StarterAppLauncher.exe">> ELSE <<"pythonw.exe", "main.py">>

\* main.py:181  "--startup" in sys.argv
startup_flag(argv) == \E i \in DOMAIN argv : argv[i] = "--startup"

\* the process as main() hands it to the window: the store loaded and left
\* in whatever configuration earlier handlers made of it
StartupEnvironment ==
    /\ \E trigger \in BOOLEAN, delay \in Delays, favourites \in FavouriteLists,
          email \in {"missing", "True"} :
            config = [starter_settings |-> StarterSettings(trigger, delay),
                      favourites |-> favourites, email_registered |-> email]
    /\ config_file = NoFile
    /\ temp_file = NoFile
    /\ save_pc = "idle"
    /\ save_data = serialize(AppConfig)
    /\ save_previous = NoFile
    /\ process = "running"
    /\ tab = NoTab
    /\ started_by \in {"user", "task"}
    /\ autostart_enabled \in IF started_by = "task" THEN {TRUE} ELSE BOOLEAN
    /\ is_startup_launch \in
          IF started_by = "task"
          THEN {startup_flag(task_command(frozen)) : frozen \in BOOLEAN}
          ELSE BOOLEAN
    /\ startup_processed = FALSE
    /\ enum_is_int \in BOOLEAN
    /\ user_setting = config.starter_settings.trigger_selected_on_startup
    /\ launch_timers = <<>>
    /\ batches = <<>>
    /\ startup_effect = "-"

StartupNext ==
    \/ SettingsTab_init /\ UNCHANGED <<clip_vars, launch_vars, read_vars>>
    \/ check_startup_trigger /\ UNCHANGED <<clip_vars, launch_vars, read_vars>>
    \/ launch_favourites /\ UNCHANGED <<clip_vars, launch_vars, read_vars>>
    \/ on_trigger_changed /\ UNCHANGED <<clip_vars, launch_vars, read_vars>>
    \/ on_save /\ UNCHANGED <<clip_vars, launch_vars, read_vars>>
    \/ delay_selected /\ UNCHANGED <<clip_vars, launch_vars, read_vars>>

\* the settings tab with the favourites tab of the same window in use
BatchNext ==
    \/ SettingsTab_init /\ UNCHANGED <<clip_vars, launch_vars, read_vars>>
    \/ check_startup_trigger /\ UNCHANGED <<clip_vars, launch_vars, read_vars>>
    \/ launch_favourites /\ UNCHANGED <<clip_vars, launch_vars, read_vars>>
    \/ on_trigger_changed /\ UNCHANGED <<clip_vars, launch_vars, read_vars>>
    \/ on_save /\ UNCHANGED <<clip_vars, launch_vars, read_vars>>
    \/ delay_selected /\ UNCHANGED <<clip_vars, launch_vars, read_vars>>
    \/ on_selected_changed /\ UNCHANGED <<clip_vars, launch_vars, read_vars>>
    \/ on_favourite_delete /\ UNCHANGED <<clip_vars, launch_vars, read_vars>>

\* ========================================================= history reads
\* tools/clipboard/storage.py list_recent, applied to a table that need not
\* have been written by add_text: the database file outlives the process.
MaxRows == 3
MaxStoredInstant == 2

\* a created_at that is not text: a BLOB, written here with a leading NUL
is_blob(value) == value # <<>> /\ value[1] = 0

\* created_at values no isoformat() wrote: the empty text, the text "x" and
\* a BLOB
Unparsable == {<<>>, <<120>>, <<0>>}

StoredTimes == {isoformat(t) : t \in 0..MaxStoredInstant} \cup Unparsable

Row(id, created_at) ==
    [ClipboardItem(id, <<"a">>, 0) EXCEPT !.created_at = created_at]

Tables ==
    {{Row(id, f[id]) : id \in DOMAIN f} :
        f \in UNION {[ids -> StoredTimes] : ids \in SUBSET (0..(MaxRows - 1))}}

Limits == (0 - 1)..(MaxRows + 1)

\* SQLite's ORDER BY on values of mixed storage class: TEXT sorts before
\* BLOB, two values of one class compare bytewise
SqlLess(a, b) ==
    IF is_blob(a) = is_blob(b) THEN TextLess(a, b) ELSE is_blob(b)

\* LIMIT n: a negative n is no limit
LimitCount(R, n) ==
    IF n < 0 \/ n > Cardinality(R) THEN Cardinality(R) ELSE n

\* the query with ORDER BY created_at ASC
select_oldest(R, n) ==
    {sel \in [1..LimitCount(R, n) -> R] :
        /\ \A i, j \in DOMAIN sel : i < j =>
              sel[i] # sel[j] /\ ~SqlLess(sel[j].created_at, sel[i].created_at)
        /\ \A i \in DOMAIN sel : \A y \in R \ {sel[j] : j \in DOMAIN sel} :
              ~SqlLess(y.created_at, sel[i].created_at)}

\* storage.py:105-112  SELECT ... ORDER BY created_at DESC LIMIT ?: the row
\* sequences fetchall can return (rows of equal created_at in any order)
select_recent(R, n) ==
    {sel \in [1..LimitCount(R, n) -> R] :
        /\ \A i, j \in DOMAIN sel : i < j =>
              sel[i] # sel[j] /\ ~SqlLess(sel[i].created_at, sel[j].created_at)
        /\ \A i \in DOMAIN sel : \A y \in R \ {sel[j] : j \in DOMAIN sel} :
              ~SqlLess(sel[i].created_at, y.created_at)}

IsDigit(c) == 48 <= c /\ c <= 57

\* the texts datetime.fromisoformat accepts, in the format of isoformat()
IsIsoformat(text) ==
    /\ Len(text) \in {2, 4}
    /\ IsDigit(text[1]) /\ IsDigit(text[2])
    /\ Len(text) = 4 => text[3] = 46 /\ text[4] = 53

\* storage.py:119-130  the created_at of the item: parsed; utcnow() for an
\* empty value and for a text neither fromisoformat nor strptime accepts
\* (ValueError); a value that is not text raises TypeError, which
\* `except ValueError` does not catch
parse_created_at(created_at_str, t) ==
    IF created_at_str = <<>> THEN [raised |-> FALSE, value |-> t]
    ELSE IF is_blob(created_at_str) THEN [raised |-> TRUE, value |-> t]
    ELSE IF IsIsoformat(created_at_str)
    THEN [raised |-> FALSE, value |-> fromisoformat(created_at_str)]
    ELSE [raised |-> FALSE, value |-> t]

\* storage.py:143-145  the handler evaluates row.get('id', 'unknown'):
\* sqlite3.Row has no method get, so the handler raises AttributeError
handler_raises == TRUE

NotListed == [called |-> FALSE, raised |-> FALSE, items |-> <<>>]

\* storage.py:115-147  the loop over the fetched rows, from row i on
RECURSIVE items_from(_, _, _, _)
items_from(selected, i, items, t) ==
    IF i > Len(selected)
    THEN [called |-> TRUE, raised |-> FALSE, items |-> items]
    ELSE LET row == selected[i]
             created_at == parse_created_at(row.created_at, t)
         IN  IF created_at.raised
             THEN IF handler_raises
                  THEN [called |-> TRUE, raised |-> TRUE, items |-> <<>>]
                  ELSE items_from(selected, i + 1, items, t)
             ELSE items_from(selected, i + 1,
                             Append(items, [id |-> row.id, content |-> row.content,
                                            content_hash |-> row.content_hash,
                                            created_at |-> created_at.value]), t)

\* storage.py:99-147  list_recent(limit) at instant t: what it can do
list_recent(R, n, t) == {items_from(sel, 1, <<>>, t) : sel \in select_recent(R, n)}

\* a caller lists the history
ListRecent ==
    /\ ~listed.called
    /\ \E out \in list_recent(rows, limit, now) : listed' = out
    /\ UNCHANGED <<clip_vars, limit>>

ReadInit ==
    /\ limit = 0
    /\ listed = NotListed

\* list_recent called once on any table, with any limit
ReadInputs ==
    /\ now = EndTime
    /\ state = "IDLE"
    /\ connections = 0
    /\ debounce_timer = Stopped
    /\ pending_content = <<>>
    /\ ignore_flag = FALSE
    /\ rows \in Tables
    /\ next_id = MaxRows
    /\ effect = Quiet
    /\ burst = NoBurst
    /\ limit \in Limits
    /\ listed = NotListed

ReadNext ==
    ListRecent /\ UNCHANGED <<launch_vars, config_vars, startup_vars>>

\* ========================================================= specifications
vars == <<clip_vars, launch_vars, config_vars, startup_vars, read_vars>>

Init == ClipInit /\ LaunchInit /\ ConfigInit /\ StartupInit /\ ReadInit

\* the clipboard tool
Spec == Init /\ [][ClipNext]_vars

\* the launcher, called in every environment
InitLaunch ==
    /\ ClipInit /\ ConfigInit /\ StartupInit /\ ReadInit
    /\ LaunchEnvironments /\ last_launch = NoCall

SpecLaunch == InitLaunch /\ [][LaunchNext]_vars

\* the configuration store, its save taken step by step
InitConfig == ClipInit /\ LaunchInit /\ StartupInit /\ ReadInit /\ ConfigFiles

SpecConfig == InitConfig /\ [][ConfigNext]_vars

\* the settings tab and its startup trigger
InitStartup == ClipInit /\ LaunchInit /\ ReadInit /\ StartupEnvironment

SpecStartup == InitStartup /\ [][StartupNext]_vars

\* the startup trigger while the user edits the favourites: a process the
\* user started with --startup, its configuration save working
InitBatch ==
    /\ InitStartup
    /\ started_by = "user" /\ is_startup_launch /\ ~autostart_enabled
    /\ enum_is_int
    /\ config.email_registered = "True"

SpecBatch == InitBatch /\ [][BatchNext]_vars

\* list_recent as a function of the table and the limit
InitRecent == ReadInputs /\ LaunchInit /\ ConfigInit /\ StartupInit

SpecRecent == InitRecent /\ [][ReadNext]_vars

\* ================================================================ claims
InsertOutcomes == {"stored", "retention_raised"}
AddOutcomes == InsertOutcomes \cup {"insert_raised"}
FiredOutcomes == AddOutcomes \cup {"duplicate", "check_raised"}

IsStateSignal(sig) == sig[1] = "clipboard_state_changed"

\* the row the latest add_text built
NewRowId == next_id - 1

\* the table as the latest add_text found it
RowsBefore ==
    IF effect.outcome \in AddOutcomes
    THEN {r \in rows \cup effect.removed : r.id # NewRowId}
    ELSE rows

Instant(r) == fromisoformat(r.created_at)

\* C1: the detector's state changes only by IDLE->RUNNING (start_listening),
\* RUNNING->PAUSED (pause), PAUSED->RUNNING (resume) and RUNNING/PAUSED->IDLE
\* (stop_listening); a step that changes the state emits exactly one
\* state-changed signal, carrying the new state, and a step that leaves the
\* state alone emits no state-changed signal.
StateMachineLegality ==
    [][ /\ state' # state =>
            /\ \/ start_listening /\ state = "IDLE" /\ state' = "RUNNING"
               \/ pause /\ state = "RUNNING" /\ state' = "PAUSED"
               \/ resume /\ state = "PAUSED" /\ state' = "RUNNING"
               \/ stop_listening /\ state \in {"RUNNING", "PAUSED"} /\ state' = "IDLE"
            /\ effect'.signals = << <<"clipboard_state_changed", state'>> >>
        /\ state' = state =>
            \A i \in DOMAIN effect'.signals : ~IsStateSignal(effect'.signals[i])
      ]_vars

\* C1 witness: pause has just taken the detector from RUNNING to PAUSED
PausedJustNow ==
    state = "PAUSED" /\ effect.signals = << <<"clipboard_state_changed", "PAUSED">> >>

\* the burst under way is over: the debounce interval has passed since its
\* last event and no debounce is pending
BurstDone ==
    /\ burst.active
    /\ now = burst.last + DebounceTicks
    /\ ~debounce_timer.active

RetentionByCountAsClaimed ==
    effect.outcome = "stored" =>
        /\ Cardinality(rows) <= MaxItems
        /\ effect.by_count > 0 =>
            /\ Cardinality(effect.removed) = effect.by_count
            /\ \A x \in effect.removed : \A y \in rows : Instant(x) <= Instant(y)

\* C4 amended: after a completed add the table holds at most MaxItems rows,
\* and when the insert pushed the count above the cap the rows removed are
\* the (count - MaxItems) oldest and, beyond them, only rows older than the
\* retention age.
RetentionByCount ==
    effect.outcome = "stored" =>
        /\ Cardinality(rows) <= MaxItems
        /\ effect.by_count > 0 =>
            \E S \in SUBSET effect.removed :
                /\ Cardinality(S) = effect.by_count
                /\ \A x \in S : \A y \in (rows \cup effect.removed) \ S :
                      Instant(x) <= Instant(y)
                /\ \A x \in effect.removed \ S : Instant(x) < now - MaxAgeTicks

\* C4 witness: an insert pushed the count above the cap and the oldest row went
TrimmedByCount ==
    /\ effect.outcome = "stored"
    /\ effect.by_count = 1
    /\ Cardinality(effect.removed) = 1
    /\ Cardinality(rows) = MaxItems

\* C5: right after an add completes, no row older than the retention age
\* remains, whether or not the count cap was reached.
RetentionByAge ==
    effect.outcome = "stored" =>
        \A r \in rows : ~(Instant(r) < now - MaxAgeTicks)

\* C5 witness: an add below the cap removed a row for its age
TrimmedByAgeUnderCap ==
    /\ effect.outcome = "stored"
    /\ effect.by_count = 0
    /\ effect.removed # {}

\* C6 as claimed: the clipboard-change event that follows ignore_next_change
\* inserts nothing and clears the flag.
IgnoreNextChangeAsClaimed ==
    [][(clipboard_changed /\ ignore_flag) => (~ignore_flag' /\ rows' = rows)]_vars

\* C7: every stored row, every content handed to add_text and every pending
\* content is non-empty after trimming and at most MaxLength characters long.
WithinBounds(content) == strip(content) # <<>> /\ Len(content) <= MaxLength

SizeAndEmptinessBounds ==
    /\ \A r \in rows : WithinBounds(r.content)
    /\ effect.outcome \in AddOutcomes => WithinBounds(effect.arg)
    /\ debounce_timer.active => WithinBounds(pending_content)

\* C7 witness: a text of exactly MaxLength characters was stored
StoredAtTheLimit ==
    /\ effect.outcome = "stored"
    /\ Len(effect.arg) = MaxLength
    /\ \E r \in rows : r.content = effect.arg

\* ------------------------------------------------------ launcher claims
Log == last_launch.out.log

AppCalled == last_launch.callee = "launch_app"

BrowserCalled == last_launch.callee = "launch_browser_urls"

\* invocation i of the latest call used mechanism fn on path and failed
FailedOn(fn, path) ==
    \E i \in DOMAIN Log :
        /\ Log[i].fn = fn
        /\ Log[i].args[Len(Log[i].args)] = path
        /\ ~Log[i].ok

\* what launch_app has to launch: the shortcut when it is found, otherwise
\* (and in the handler) the resolved target when it is another, existing path
HasLaunchTarget(path) ==
    IF ~faulty /\ fav.lnk_path \in on_disk
    THEN path = fav.lnk_path
    ELSE path = target /\ target # fav.lnk_path /\ target \in on_disk

\* C8: in every environment launch_app returns without raising; it returns
\* TRUE exactly when one of the launch mechanisms it invoked succeeded, and
\* FALSE only after every mechanism of its chain was tried on the launch
\* target and failed (ShellExecuteW "open", then os.startfile, and in the
\* handler subprocess.Popen as the last resort).
LaunchAppResult ==
    AppCalled =>
        /\ ~last_launch.out.raised
        /\ last_launch.out.result <=> \E i \in DOMAIN Log : Log[i].ok
        /\ \A path \in Paths :
              (~last_launch.out.result /\ HasLaunchTarget(path)) =>
                 /\ FailedOn("ShellExecuteW", path)
                 /\ FailedOn("os.startfile", path)
                 /\ faulty => FailedOn("subprocess.Popen", path)

\* C8 witness: the primary mechanism failed and the fallback launched the app
LaunchedByFallback ==
    /\ AppCalled
    /\ last_launch.out.result
    /\ Len(Log) = 2
    /\ Log[1].fn = "ShellExecuteW" /\ ~Log[1].ok
    /\ Log[2].fn = "os.startfile" /\ Log[2].ok

\* invocation inv opens a URL (alone, or as the browser's argument)
OpensUrl(inv) == inv.args[Len(inv.args)] \in Urls

\* C9: in every environment launch_browser_urls returns without raising, and
\* returns TRUE if and only if at least one invocation that opens a URL
\* succeeded; with an empty list it returns FALSE having resolved no shortcut
\* and launched nothing.
LaunchBrowserUrlsResult ==
    BrowserCalled =>
        /\ ~last_launch.out.raised
        /\ last_launch.out.result <=>
              \E i \in DOMAIN Log : OpensUrl(Log[i]) /\ Log[i].ok
        /\ fav.browser_links = <<>> =>
              /\ ~last_launch.out.result
              /\ last_launch.out.resolves = 0
              /\ Log = <<>>

\* C9 witness: the browser's shortcut was launched, every URL failed to open,
\* and the result is FALSE
BrowserWithoutUrls ==
    /\ BrowserCalled
    /\ fav.browser_links # <<>>
    /\ ~last_launch.out.result
    /\ \E i \in DOMAIN Log : Log[i].args = <<fav.lnk_path>> /\ Log[i].ok
    /\ \E i \in DOMAIN Log : OpensUrl(Log[i])

\* the case of C10: the shortcut resolves to an existing executable and no
\* launch invocation fails
CleanBrowserLaunch ==
    /\ BrowserCalled
    /\ fav.browser_links # <<>>
    /\ ~faulty
    /\ target = ExePath /\ target \in on_disk
    /\ \A i \in DOMAIN Log : Log[i].ok

\* C10 as claimed: N invocations, the i-th for the i-th URL: the first with
\* the browser executable, each later one an open request for the URL alone.
BrowserMultiUrlLaunchAsClaimed ==
    CleanBrowserLaunch =>
        /\ Len(Log) = Len(fav.browser_links)
        /\ Log[1].args = <<target, fav.browser_links[1]>>
        /\ \A i \in 2..Len(fav.browser_links) : Log[i].args = <<fav.browser_links[i]>>

\* C10 amended: N invocations, the i-th for the i-th entry of the list, each
\* of them a launch of the browser executable with that URL as its argument.
BrowserMultiUrlLaunch ==
    CleanBrowserLaunch =>
        /\ Len(Log) = Len(fav.browser_links)
        /\ \A i \in 1..Len(fav.browser_links) :
              /\ Log[i].fn = "subprocess.Popen"
              /\ Log[i].args = <<target, fav.browser_links[i]>>

\* C10 witness: three URLs opened by three invocations
ThreeUrlsLaunched ==
    /\ CleanBrowserLaunch
    /\ Len(fav.browser_links) = 3
    /\ Len(Log) = 3
    /\ fav.browser_links[1] # fav.browser_links[2]

\* -------------------------------------------------------- config claims
IsDocument(content) ==
    /\ Len(content) = Len(DocumentKeys)
    /\ \A i \in DOMAIN content : content[i].key = DocumentKeys[i]

\* C17: at every step of ConfigStore.save, and in whatever state the process
\* dies, config.json holds a complete document: the one the save found (or no
\* file, when it found none) until the rename, the new one after it; what is
\* partly written is only ever in config.tmp.
AtomicConfigSave ==
    /\ config_file.exists => IsDocument(config_file.content)
    /\ Saving => config_file = save_previous
    /\ config_file \in {save_previous, File(json_dump(save_data))}

\* C17 witness: the process died in the middle of a save, config.tmp half
\* written and config.json still the previous document
CrashedMidSave ==
    /\ process = "crashed"
    /\ Saving
    /\ temp_file.exists
    /\ Len(temp_file.content) \in 1..(Len(DocumentKeys) - 1)
    /\ config_file.exists
    /\ config_file # File(json_dump(save_data))

\* ------------------------------------------------------- startup claims
NothingLaunchedAtStartup == launch_timers = <<>> /\ batches = <<>>

\* C11: however often check_startup_trigger runs, the batch launch of the
\* selected favourites is scheduled at most once and run at most once.
StartupRunsOnce == Len(launch_timers) + Len(batches) <= 1

\* C11 witness: the batch has run and a later check_startup_trigger was
\* turned away by the guard
CheckedAgainAfterBatch ==
    /\ startup_effect = "skipped"
    /\ Len(batches) = 1

\* C12 as claimed: a process whose user had the setting disabled launches no
\* favourite at startup and leaves the setting disabled.
StartupGatedBySettingAsClaimed ==
    ~user_setting =>
        /\ NothingLaunchedAtStartup
        /\ ~config.starter_settings.trigger_selected_on_startup

\* C13: a process started without --startup never schedules or runs the
\* batch, whatever the settings, the selection and the autostart task.
StartupNeedsLaunchFlag == ~is_startup_launch => NothingLaunchedAtStartup

\* C13 witness: check_startup_trigger ran in a process started by hand, with
\* the autostart task present, the trigger on and a favourite selected
CheckedWithoutLaunchFlag ==
    /\ ~is_startup_launch
    /\ startup_effect = "not_startup"
    /\ autostart_enabled
    /\ config.starter_settings.trigger_selected_on_startup
    /\ selected_favourites(config.favourites) # <<>>

\* C14 as claimed: a run of launch_favourites attempts every favourite of
\* its batch, whether an earlier one returned false or raised, and does not
\* itself raise.
StartupFailureIsolationAsClaimed ==
    \A b \in DOMAIN batches :
        /\ ~batches[b].raised
        /\ Len(batches[b].attempts) = Len(batches[b].favourites)

\* ----------------------------------------------------- privilege claims
\* the invocation asks for no elevation: ShellExecuteW is given the verb
\* "open", and no invocation carries "runas"
RequestsNormalUser(inv) ==
    /\ inv.fn = "ShellExecuteW" => inv.args[1] = <<"open">>
    /\ \A a \in DOMAIN inv.args : inv.args[a] # <<"runas">>

\* C15: whether the host runs elevated or not, every target that launch_app
\* and launch_browser_urls start, the fallbacks included, is started without
\* a request for elevation and runs with normal-user privileges.
NonElevationAsClaimed ==
    (AppCalled \/ BrowserCalled) =>
        \A i \in DOMAIN Log :
            /\ RequestsNormalUser(Log[i])
            /\ Log[i].ok => child_token(Log[i]) = "normal"

\* ---------------------------------------------------- immutability claim
\* C16: across every operation (add, delete, clear_all, retention), a row
\* that is in the store before and after the operation has, under its id,
\* the same content, content_hash and created_at: rows are only inserted
\* and deleted.
StoredItemsImmutable ==
    [][\A r \in rows : \A q \in rows' :
           q.id = r.id => /\ q.content = r.content
                          /\ q.content_hash = r.content_hash
                          /\ q.created_at = r.created_at]_vars

\* C16 witness: a row inserted earlier is still stored after a later capture
\* of the same content was inserted
ItemKeptAcrossLaterInsert ==
    /\ effect.outcome = "stored"
    /\ \E r \in rows : r.id # NewRowId /\ r.content = effect.arg

\* ---------------------------------------------------- notification claim
\* the item_added notifications of the latest step
ItemAddedCount ==
    Cardinality({i \in DOMAIN effect.signals : effect.signals[i] = <<"item_added">>})

StalePending == pending_content # <<>> /\ ~debounce_timer.active

\* C19: a stop_listening or pause called while a debounce is pending stops
\* the timer and inserts nothing; the content then left pending is never
\* inserted: no step inserts a row while it is pending, a start_listening
\* or resume does not arm the timer, and it stops being pending only when a
\* new clipboard event replaces it with that event's text.
CancellationOnStop ==
    [][ /\ (debounce_timer.active /\ (stop_listening \/ pause)) =>
              ~debounce_timer'.active /\ rows' = rows
        /\ StalePending => rows' \subseteq rows
        /\ (StalePending /\ (start_listening \/ resume)) => StalePending'
        /\ (StalePending /\ ~StalePending') =>
              /\ state = "RUNNING" /\ connections > 0
              /\ \E text \in Texts :
                     /\ Qualifies(text, TRUE)
                     /\ pending_content' = strip(text)
                     /\ debounce_timer' = Started(now + DebounceTicks)
      ]_vars

\* C19 witness: the detector runs again, after the instant the cancelled
\* debounce was due, with the cancelled content still pending
StalePendingAfterRestart ==
    /\ StalePending
    /\ state = "RUNNING"
    /\ connections > 0
    /\ burst = NoBurst

\* ------------------------------------------------- storage failure claim
\* the store failed during the latest debounce handler
StoreFailed == effect.outcome \in {"check_raised", "insert_raised", "retention_raised"}

\* the exception left _process_clipboard_change
HandlerRaised == effect.outcome = "check_raised"

\* C20 as stated: when the duplicate check or the insert fails as the
\* debounce fires, no exception escapes the detector's handler; the capture
\* is lost and nothing is notified.
DetectorSurvivesStorageFailureAsClaimed ==
    StoreFailed => /\ ~HandlerRaised
                   /\ effect.signals = <<>>
                   /\ pending_content = <<>>

\* ------------------------------------------------------------ read claims
\* the row of the table an item was built from
StoredRow(item) == CHOOSE r \in rows : r.id = item.id

WellFormed(row) == ~is_blob(row.created_at) /\ IsIsoformat(row.created_at)

ListedIds == {listed.items[i].id : i \in DOMAIN listed.items}

\* C21 as stated: list_recent does not fail on a table holding a row with an
\* unparsable created_at, and returns well-formed rows only: every
\* well-formed row the limit allows and no malformed row.
ListRecentSkipsMalformedAsClaimed ==
    listed.called =>
        /\ ~listed.raised
        /\ \A id \in ListedIds : WellFormed(CHOOSE r \in rows : r.id = id)
        /\ (limit < 0 \/ limit >= Cardinality(rows)) =>
              ListedIds = {r.id : r \in {x \in rows : WellFormed(x)}}

AutostartLeadsToLaunchAsClaimed ==
    started_by = "task" =>
        /\ is_startup_launch
        /\ startup_effect # "not_startup"

\* ---------------------------------------------------- fallback chain claim
\* C24 as stated: with a non-empty URL list, a failed launch of the browser
\* executable is followed by a launch of the shortcut, and a failed launch
\* of the shortcut is followed by an attempt to open every URL on its own.
BrowserFallbackChainAsClaimed ==
    (BrowserCalled /\ fav.browser_links # <<>>) =>
        /\ (Log # <<>> /\ Log[1].args = <<target, fav.browser_links[1]>> /\ ~Log[1].ok) =>
              Len(Log) >= 2 /\ Log[2].args = <<fav.lnk_path>>
        /\ \A i \in DOMAIN Log :
              (Log[i].args = <<fav.lnk_path>> /\ ~Log[i].ok) =>
                  \A k \in DOMAIN fav.browser_links :
                      \E j \in DOMAIN Log :
                          j > i /\ Log[j].args = <<fav.browser_links[k]>>

\* ------------------------------------------------------ batch contents claim
BatchJustRun == startup_effect \in {"batch_done", "batch_raised"}

LatestBatch == batches[Len(batches)]

IdsOf(favourites) == [k \in DOMAIN favourites |-> favourites[k].id]

\* C25 as stated: the favourites a batch launches are exactly the favourites
\* of the configuration whose selected flag is set when they are launched,
\* each once, in configuration order; one deselected or deleted during the
\* delay is not launched.
StartupBatchContentsAsClaimed ==
    (BatchJustRun /\ ~LatestBatch.raised) =>
        /\ Len(LatestBatch.attempts) = Len(LatestBatch.favourites)
        /\ IdsOf(LatestBatch.favourites) =
              IdsOf(selected_favourites(config.favourites))

\* ------------------------------------------------- event handling claims
\* the latest clipboard-change event was discarded by the handler
EventDiscarded == burst.active /\ burst.last = now /\ burst.content = <<>>

\* C26: while the detector stays RUNNING, a qualifying event becomes the
\* pending content and (re)arms the timer, superseding what was pending; an
\* armed timer always has its content, which nothing but a later event or the
\* timer's handler changes; the timer ends only by firing, and it fires
\* before time passes its due instant; the handler processes the pending
\* content once: it consumes it, checks it and, no store call failing,
\* inserts it if and only if it is not a duplicate, and every insert is the
\* insert of the content that was pending.
NoLostOrDoubledCapture ==
    [][ (state = "RUNNING" /\ state' = "RUNNING") =>
          /\ (clipboard_changed /\ burst'.content # <<>>) =>
                /\ pending_content' = burst'.content
                /\ debounce_timer' = Started(now + DebounceTicks)
          /\ debounce_timer.active => pending_content # <<>>
          /\ (debounce_timer.active /\ pending_content' # pending_content) =>
                clipboard_changed \/ process_clipboard_change
          /\ (debounce_timer.active /\ ~debounce_timer'.active) =>
                process_clipboard_change
          /\ (debounce_timer.active /\ now' # now) => now' <= debounce_timer.due
          /\ (process_clipboard_change /\ pending_content # <<>>) =>
                /\ effect'.outcome \in FiredOutcomes
                /\ effect'.arg = pending_content
                /\ pending_content' = <<>>
                /\ ~debounce_timer'.active
                /\ effect'.outcome \in {"stored", "duplicate"} =>
                      (effect'.outcome = "stored" <=>
                          ~check_hash_exists_in_hours(rows, sha1(pending_content), now))
          /\ ~(rows' \subseteq rows) =>
                /\ process_clipboard_change
                /\ debounce_timer.active
                /\ \A r \in rows' \ rows : r.content = pending_content
                /\ Cardinality(rows' \ rows) = 1
      ]_vars

\* C26 witness: an event was superseded before the timer fired, and the
\* content of the later event was stored, once
SupersededThenStoredOnce ==
    /\ state = "RUNNING"
    /\ effect.outcome = "stored"
    /\ burst.active /\ burst.multi /\ burst.running /\ burst.qualifying
    /\ effect.arg = burst.content
    /\ Cardinality({r \in rows : r.content = effect.arg}) = 1
    /\ pending_content = <<>> /\ ~debounce_timer.active

\* C27: a clipboard-change event received while the detector is IDLE or
\* PAUSED leaves the pending content, the debounce timer, the ignore flag,
\* the state and the store unchanged; and while the detector is not RUNNING
\* the timer is not armed and no row is inserted.
EventsOutsideRunningHaveNoEffect ==
    [][ state # "RUNNING" =>
          /\ clipboard_changed =>
                UNCHANGED <<pending_content, debounce_timer, ignore_flag, state, rows>>
          /\ ~debounce_timer.active
          /\ state' # "RUNNING" => ~debounce_timer'.active
          /\ rows' \subseteq rows
      ]_vars

\* C27 witness: an event arrived while PAUSED, content of a cancelled
\* debounce still pending
EventWhilePaused ==
    /\ state = "PAUSED"
    /\ burst.active /\ burst.last = now /\ ~burst.running
    /\ pending_content # <<>>
    /\ ~debounce_timer.active

\* C28: while RUNNING with a debounce pending, an event the handler discards
\* (ignore flag, unreadable, empty or blank, too long) leaves the pending
\* content and the timer, its due instant included, as they were.
DiscardedEventsKeepDebounce ==
    [][ (state = "RUNNING" /\ debounce_timer.active
         /\ clipboard_changed /\ EventDiscarded') =>
            /\ pending_content' = pending_content
            /\ debounce_timer' = debounce_timer
      ]_vars

\* C28 witness: the pending content was stored by the timer armed before a
\* discarded event of the same burst
StoredAfterDiscardedEvent ==
    /\ effect.outcome = "stored"
    /\ burst.active /\ burst.multi /\ burst.running /\ ~burst.qualifying
    /\ burst.content = <<>>
    /\ effect.arg # <<>>

\* ------------------------------------------------------ new row claim
\* the latest add_text returned, and the row it inserted is strictly newer
\* than every row it found
StoredStrictlyNewest ==
    /\ effect.outcome = "stored"
    /\ \A r \in RowsBefore : Instant(r) < now

\* C29: when add_text inserts a row strictly newer than every existing row,
\* the retention pass of that add does not delete it: the row is in the
\* store, as inserted, when add_text returns.
NewRowSurvivesRetention ==
    StoredStrictlyNewest =>
        /\ ClipboardItem(NewRowId, effect.arg, now) \in rows
        /\ \A r \in effect.removed : r.id # NewRowId

\* C29 witness: the retention pass of an add deleted an older row and kept
\* the new one
OlderRowTrimmedNewRowKept ==
    /\ StoredStrictlyNewest
    /\ effect.removed # {}
    /\ \E r \in rows : r.id = NewRowId

\* --------------------------------------------------------- round trip claim
\* C30 as stated: _deserialize(_serialize(c)) = c, so that a load in a new
\* process restores the configuration the file was saved from rather than
\* the default configuration.
ConfigRoundTripAsClaimed ==
    [][ (load /\ config_file.exists) =>
            /\ ~serialize_raises(config')
            /\ json_dump(serialize(config')) = config_file.content
      ]_vars

====
